---- MODULE Spec2Model ----
(***************************************************************************)
(* Scroll-navigated procedural path: the input handlers, the section snap  *)
(* state machine, the momentum scroller, the useSmoothScroll hook and the  *)
(* visible-object window built by PathRenderer.createDottedPath.           *)
(*                                                                         *)
(* Position is a real number in the program.  Here it is a fixed-point     *)
(* integer counting 1/PosScale of a row; Floor is Math.floor.  Time is     *)
(* counted in tenths of a second and advances by FrameStep per frame.      *)
(***************************************************************************)
EXTENDS Integers, Sequences, FiniteSets, TLC

VARIABLES
  gsap,               \* window.gsap is defined
  position,           \* positionRef.current, fixed point
  isSnapping,         \* isSnappingRef.current
  velocity,           \* momentum velocity, fixed-point units per tenth of a second
  posTweens,          \* the scheduler's active tweens on positionRef, in creation order
  currentTweenRef,    \* useSmoothScroll: currentTweenRef.current ("null" or "tween")
  targetPositionRef,  \* useSmoothScroll: targetPositionRef.current, fixed point
  hookOnUpdate,       \* useSmoothScroll was given an onUpdate that refreshes the window
  touchStartY,        \* InputHandler: touchStartYRef.current
  touchDelta,         \* InputHandler: touchDeltaRef.current
  groupsReady,        \* dotsGroupRef, cardsGroupRef and textGroupRef are all non-null
  dotsGroup,          \* dotsGroupRef.current.children
  cardsGroup,         \* cardsGroupRef.current.children
  textGroup,          \* textGroupRef.current.children
  windowBase,         \* Math.floor(positionRef.current) as read by the last rebuild
  intent,             \* history: what the last step passed to snapToAgent (1 or -1);
                      \* 0 if it was a wheel, key or touch-end event that did not call
                      \* it; NoInput for every other step
  rebuilds,           \* history: rebuilds in a row since Position last changed, up to 2
  dragCount,          \* history: drag inputs delivered so far
  scrollCount,        \* history: useSmoothScroll.scrollTo / scrollBy calls made so far
  meshes,             \* the objects the pointer has hit so far, whether or not they
                      \* are still children of their group; an object's place in this
                      \* sequence is its identity
  animatedObjects,    \* InteractionManager.animatedObjects: object -> AnimationData
  currentlyHoveredObject, \* InteractionManager.currentlyHoveredObject (0: null)
  objTweens,          \* the scheduler's active tweens on objects, in creation order
  pointerCount,       \* history: pointer events delivered to InteractionManager so far
  scene,              \* SceneManager.scene is non-null
  currentGradientIndex,   \* SceneManager.currentGradientIndex
  previousGradientCanvas, \* SceneManager.previousGradientCanvas
  currentGradientCanvas,  \* SceneManager.currentGradientCanvas
  sphereMap,          \* backgroundSphere.material.map: the image(s) the sphere shows
  fog,                \* scene.fog colour
  transitionProgress, \* SceneManager.transitionProgress.value, in 1/CurveScale
  bgTweens,           \* the scheduler's active tweens on transitionProgress
  context2d,          \* environment: canvas.getContext('2d') returns a context
  surfaceOutcome,     \* history: how the last SceneManager step's drawing-surface
                      \* acquisitions went ("none" if it made none)
  requested,          \* history: agentIndex of the last updateBackgroundForAgent call
  bgCount,            \* history: updateBackgroundForAgent calls made so far
  disposed            \* the page's cleanup has run

navVars == <<position, isSnapping, velocity, posTweens>>
hookVars == <<currentTweenRef, targetPositionRef>>
touchVars == <<touchStartY, touchDelta>>
groupVars == <<groupsReady, dotsGroup, cardsGroup, textGroup, windowBase>>
windowVars == <<groupsReady, dotsGroup, cardsGroup, textGroup, windowBase, meshes>>
hoverVars == <<animatedObjects, currentlyHoveredObject, objTweens, pointerCount>>
sceneVars == <<scene, currentGradientIndex, previousGradientCanvas,
               currentGradientCanvas, sphereMap, fog, transitionProgress, bgTweens,
               context2d, surfaceOutcome, requested, bgCount>>
countVars == <<dragCount, scrollCount>>
vars == <<gsap, position, isSnapping, velocity, posTweens, currentTweenRef,
          targetPositionRef, hookOnUpdate, touchStartY, touchDelta, groupsReady,
          dotsGroup, cardsGroup, textGroup, windowBase, intent, rebuilds,
          dragCount, scrollCount, meshes, animatedObjects,
          currentlyHoveredObject, objTweens, pointerCount, scene,
          currentGradientIndex, previousGradientCanvas, currentGradientCanvas,
          sphereMap, fog, transitionProgress, bgTweens, context2d, surfaceOutcome,
          requested, bgCount, disposed>>

----------------------------------------------------------------------------
(* Bounds of the model *)

PosScale == 2       \* fixed-point resolution of Position: units per row
FrameStep == 4      \* tenths of a second between two frames
MaxSection == 2     \* forward navigation is explored up to this section
MaxVelocity == 4    \* drag input is explored up to this speed
MaxDrags == 1       \* drag inputs explored in one run
MaxScrollCalls == 1 \* scrollTo / scrollBy calls explored in one run
MaxPointerEvents == 3 \* pointer events explored in one run
MaxBackgroundCalls == 2 \* updateBackgroundForAgent calls explored in one run
CurveScale == 1000  \* fixed-point resolution of lengths and angles in the curve

(* Program constants *)

SectionSize == 60   \* rows per agent section
visibleRange == 30  \* window radius in rows
DotsPerRow == 6
RowSpacing == 8
cameraDistance == 25
fov == 75
CurveRamp == 10     \* rows over which the curve eases in
TouchThreshold == 50
ScrollDuration == 5 \* useSmoothScroll default duration 0.5 s, in tenths
SnapDuration == 12  \* snap tween duration 1.2 s, in tenths
BackgroundDuration == 12 \* background cross-fade 1.2 s, in tenths
RevertDuration == 3    \* stopHoverAnimation: 0.3 s, in tenths
DotScaleDuration == 3
DotMoveDuration == 4
DotSpinDuration == 6
DotGlowDuration == 3
CubeScaleDuration == 2
CubeMoveDuration == 3
CubeSpinDuration == 4
CubeFlashDuration == 2
CubeFadeDuration == 3

None == -1000000     \* no value
NoInput == 2         \* intent: the last step delivered no directional event

----------------------------------------------------------------------------
(* Arithmetic helpers *)

Max(a, b) == IF a >= b THEN a ELSE b

Min(a, b) == IF a <= b THEN a ELSE b

Abs(a) == IF a >= 0 THEN a ELSE -a

Sign(a) == IF a > 0 THEN 1 ELSE IF a < 0 THEN -1 ELSE 0

\* the elements of a sequence
Range(seq) == {seq[k] : k \in 1..Len(seq)}

\* Math.floor of a fixed-point position, in rows
Floor(p) == p \div PosScale

\* a whole number of rows as a fixed-point position
Rows(n) == n * PosScale

\* Math.floor(position / 60)
Section(p) == p \div (SectionSize * PosScale)

----------------------------------------------------------------------------
(* CurveFunction: PathRenderer.calculateRoundedCurve and                    *)
(* calculateHelixElevation.  Lengths and angles (radians) are fixed-point   *)
(* integers counting 1/CurveScale.                                          *)

\* Math.PI
Pi == (355 * CurveScale) \div 113

\* a * b of two fixed-point numbers
Mul(a, b) == (a * b) \div CurveScale

\* Math.sin of an angle in 0 .. Pi/2, by its series up to the 7th power
SinSeries(x) ==
  LET x2 == Mul(x, x)
      x3 == Mul(x2, x)
      x5 == Mul(x3, x2)
      x7 == Mul(x5, x2)
  IN x - x3 \div 6 + x5 \div 120 - x7 \div 5040

\* Math.sin
Sin(angle) ==
  LET t == angle % (2 * Pi)
      u == IF t >= Pi THEN t - Pi ELSE t
      v == IF 2 * u > Pi THEN Pi - u ELSE u
  IN IF t >= Pi THEN -SinSeries(v) ELSE SinSeries(v)

\* Math.cos
Cos(angle) == Sin(angle + Pi \div 2)

\* screenWidth = 2 * Math.tan((fov * Math.PI / 180) / 2) * cameraDistance
screenWidth ==
  LET half == (fov * Pi) \div 360
  IN (2 * cameraDistance * Sin(half) * CurveScale) \div Cos(half)

\* smoothStep(t) = t * t * t * (t * (t * 6 - 15) + 10)
smoothStep(t) ==
  LET t3 == Mul(Mul(t, t), t)
  IN Mul(t3, Mul(t, 6 * t - 15 * CurveScale) + 10 * CurveScale)

\* easedProgress = smoothStep(Math.min(1, globalRowIndex / 10))
easedProgress(globalRowIndex) ==
  smoothStep(Min(CurveScale, (globalRowIndex * CurveScale) \div CurveRamp))

\* the lateral offset with the helix angle measured from the row under the
\* camera, so that it reads Position
calculateRoundedCurveFromCamera(globalRowIndex) ==
  LET helixRadius == screenWidth \div 4
      angle == ((globalRowIndex - Floor(position)) * CurveScale) \div 10
      xOffset == Mul(Cos(angle), helixRadius)
      secondaryWave == Mul(Sin(angle * 2), screenWidth \div 20)
      tertiaryWave == Mul(Cos(angle * 3), screenWidth \div 50)
      helixOffset == xOffset + secondaryWave + tertiaryWave
      organicVariation ==
        Mul(Sin((globalRowIndex * 15 * CurveScale) \div 1000), screenWidth \div 100)
        + Mul(Cos((globalRowIndex * 25 * CurveScale) \div 1000), screenWidth \div 200)
  IN Mul(helixOffset, easedProgress(globalRowIndex)) + organicVariation

\* calculateRoundedCurve(globalRowIndex): the lateral offset of a row
calculateRoundedCurve(globalRowIndex) ==
  LET helixRadius == screenWidth \div 4
      angle == (globalRowIndex * CurveScale) \div 10
      xOffset == Mul(Cos(angle), helixRadius)
      secondaryWave == Mul(Sin(angle * 2), screenWidth \div 20)
      tertiaryWave == Mul(Cos(angle * 3), screenWidth \div 50)
      helixOffset == xOffset + secondaryWave + tertiaryWave
      organicVariation ==
        Mul(Sin((globalRowIndex * 15 * CurveScale) \div 1000), screenWidth \div 100)
        + Mul(Cos((globalRowIndex * 25 * CurveScale) \div 1000), screenWidth \div 200)
  IN Mul(helixOffset, easedProgress(globalRowIndex)) + organicVariation

\* calculateHelixElevation(globalRowIndex): the height of a row
calculateHelixElevation(globalRowIndex) ==
  LET elevationAmplitude == 3
      elevationAngle == (globalRowIndex * 15 * CurveScale) \div 100
      mainElevation == Sin(elevationAngle) * elevationAmplitude
      secondaryElevation == (Cos(elevationAngle * 2) * elevationAmplitude * 3) \div 10
      organicVariation == Sin((globalRowIndex * 2 * CurveScale) \div 100) \div 2
      baseHeight == CurveScale \div 100
  IN baseHeight
     + Mul(mainElevation + secondaryElevation + organicVariation,
           easedProgress(globalRowIndex))

----------------------------------------------------------------------------
(* ObjectSpawner: the objects PathRenderer.createDottedPath makes for a row *)

\* xPos of a dot: (col / 5) * screenWidth - screenWidth / 2 + curveOffset
xPos(col, curveOffset) ==
  (col * screenWidth) \div (DotsPerRow - 1) - screenWidth \div 2 + curveOffset

\* an object descriptor: what the mesh is (userData) and the part of its
\* place that depends on the window (z = -distance); x and y depend on the
\* row and column alone and are given by positionX and positionY
Obj(kind, globalRowIndex, col, distance) ==
  [kind |-> kind, rowIndex |-> globalRowIndex, columnIndex |-> col,
   z |-> -distance, isClickable |-> TRUE]

\* position.x of a spawned object: xPos for a dot, the row's offset for the
\* others
positionX(o) ==
  LET curveOffset == calculateRoundedCurve(o.rowIndex)
  IN IF o.kind = "dot" THEN xPos(o.columnIndex, curveOffset) ELSE curveOffset

\* position.y of a spawned object: the row's elevation
positionY(o) == calculateHelixElevation(o.rowIndex)

\* the dots with a userData that has no isClickable mark
DotsOfRowUnmarked(globalRowIndex, distance) ==
  [c \in 1..DotsPerRow |->
     [Obj("dot", globalRowIndex, c - 1, distance) EXCEPT !.isClickable = FALSE]]

\* the 6 ground dots of a row (inner loop over col)
DotsOfRow(globalRowIndex, distance) ==
  [c \in 1..DotsPerRow |-> Obj("dot", globalRowIndex, c - 1, distance)]

\* ShapeManager.createMilestoneText
createMilestoneText(globalRowIndex, distance) ==
  Obj("milestone_text", globalRowIndex, 0, distance)

\* ShapeManager.createAgentBox
createAgentBox(globalRowIndex, distance) ==
  Obj("ai_agent", globalRowIndex, 0, distance)

\* ShapeManager.createVariousShapes
createVariousShapes(globalRowIndex, distance) ==
  Obj("various_shape", globalRowIndex, 0, distance)

\* ShapeManager.createDecorativeShapes
createDecorativeShapes(globalRowIndex, distance) ==
  Obj("decorative_shape", globalRowIndex, 0, distance)

\* ShapeManager.createBreakableCubesBothSides: one cube on each side
createBreakableCubesBothSides(globalRowIndex, distance) ==
  << Obj("breakable_cube", globalRowIndex, -1, distance),
     Obj("breakable_cube", globalRowIndex, 1, distance) >>

\* the milestone rule without its  globalRowIndex > 0  condition
TextOfRowFromZero(globalRowIndex, distance) ==
  IF globalRowIndex % 40 = 0
  THEN << createMilestoneText(globalRowIndex, distance) >>
  ELSE << >>

\* what one row adds to textGroup
TextOfRow(globalRowIndex, distance) ==
  IF globalRowIndex > 0 /\ globalRowIndex % 40 = 0
  THEN << createMilestoneText(globalRowIndex, distance) >>
  ELSE << >>

\* the rules with the assorted shape not excluded on agent rows
CardsOfRowVariousOnAgentRows(globalRowIndex, distance) ==
  (IF globalRowIndex > 0 /\ globalRowIndex % 60 = 0
   THEN << createAgentBox(globalRowIndex, distance) >> ELSE << >>)
  \o
  (IF globalRowIndex > 0 /\ globalRowIndex % 15 = 0
   THEN << createVariousShapes(globalRowIndex, distance) >> ELSE << >>)
  \o
  (IF globalRowIndex > 0 /\ globalRowIndex % 50 = 0
   THEN createBreakableCubesBothSides(globalRowIndex, distance) ELSE << >>)
  \o
  (IF globalRowIndex > 0 /\ globalRowIndex % 8 = 0 /\ globalRowIndex % 15 # 0
   THEN << createDecorativeShapes(globalRowIndex, distance) >> ELSE << >>)

\* the rules with the decorative shape not excluded on rows of the 15-rule
CardsOfRowDecorativeEveryEighth(globalRowIndex, distance) ==
  (IF globalRowIndex > 0 /\ globalRowIndex % 60 = 0
   THEN << createAgentBox(globalRowIndex, distance) >> ELSE << >>)
  \o
  (IF globalRowIndex > 0 /\ globalRowIndex % 15 = 0 /\ globalRowIndex % 60 # 0
   THEN << createVariousShapes(globalRowIndex, distance) >> ELSE << >>)
  \o
  (IF globalRowIndex > 0 /\ globalRowIndex % 50 = 0
   THEN createBreakableCubesBothSides(globalRowIndex, distance) ELSE << >>)
  \o
  (IF globalRowIndex > 0 /\ globalRowIndex % 8 = 0
   THEN << createDecorativeShapes(globalRowIndex, distance) >> ELSE << >>)

\* what one row adds to cardsGroup, in the order of the loop body
CardsOfRow(globalRowIndex, distance) ==
  (IF globalRowIndex > 0 /\ globalRowIndex % 60 = 0
   THEN << createAgentBox(globalRowIndex, distance) >> ELSE << >>)
  \o
  (IF globalRowIndex > 0 /\ globalRowIndex % 15 = 0 /\ globalRowIndex % 60 # 0
   THEN << createVariousShapes(globalRowIndex, distance) >> ELSE << >>)
  \o
  (IF globalRowIndex > 0 /\ globalRowIndex % 50 = 0
   THEN createBreakableCubesBothSides(globalRowIndex, distance) ELSE << >>)
  \o
  (IF globalRowIndex > 0 /\ globalRowIndex % 8 = 0 /\ globalRowIndex % 15 # 0
   THEN << createDecorativeShapes(globalRowIndex, distance) >> ELSE << >>)

----------------------------------------------------------------------------
(* WindowManager: PathRenderer.createDottedPath *)

\* the three containers as one value; cleared records that clear() has
\* removed the children they had
Containers(dots, cards, text, base) ==
  [dots |-> dots, cards |-> cards, text |-> text, base |-> base, cleared |-> FALSE]

\* Group.clear() on the three containers
ClearGroups(w) ==
  [Containers(<< >>, << >>, << >>, w.base) EXCEPT !.cleared = TRUE]

\* one iteration of  for (let i = -visibleRange; i < visibleRange; i++):
\* what it adds to one of the three groups
RowBody(group, base, i) ==
  LET globalRowIndex == base + i
      distance == i * RowSpacing
  IN IF globalRowIndex < 0 THEN << >>
     ELSE IF group = "dots" THEN DotsOfRow(globalRowIndex, distance)
     ELSE IF group = "cards" THEN CardsOfRow(globalRowIndex, distance)
     ELSE TextOfRow(globalRowIndex, distance)

\* the iterations lo <= i < hi in order: what they add to one group
\* (evaluated by halving the range)
RECURSIVE RowLoop(_, _, _, _)
RowLoop(group, base, lo, hi) ==
  IF lo >= hi THEN << >>
  ELSE IF hi = lo + 1 THEN RowBody(group, base, lo)
  ELSE LET mid == (lo + hi) \div 2
       IN RowLoop(group, base, lo, mid) \o RowLoop(group, base, mid, hi)

\* the loop run with  i <= visibleRange  as its condition
LoopAddsInclusive(base) ==
  [dots |-> RowLoop("dots", base, -visibleRange, visibleRange + 1),
   cards |-> RowLoop("cards", base, -visibleRange, visibleRange + 1),
   text |-> RowLoop("text", base, -visibleRange, visibleRange + 1)]

\* the whole loop for one value of Math.floor(positionRef.current): what it
\* adds to each group
LoopAdds(base) ==
  [dots |-> RowLoop("dots", base, -visibleRange, visibleRange),
   cards |-> RowLoop("cards", base, -visibleRange, visibleRange),
   text |-> RowLoop("text", base, -visibleRange, visibleRange)]

\* the values Math.floor(positionRef.current) takes within the bounds
BaseRange == (-SectionSize - 1)..(MaxSection * SectionSize + 1)

\* LoopAdds tabulated over BaseRange (the loop reads nothing but base)
LoopTable == [base \in BaseRange |-> LoopAdds(base)]

\* createDottedPath() without the three clear() calls
createDottedPathNoClear(ready, w, pos) ==
  IF ~ready THEN w
  ELSE LET base == Floor(pos)
           adds == LoopTable[base]
       IN [w EXCEPT !.dots = w.dots \o adds.dots, !.cards = w.cards \o adds.cards,
                    !.text = w.text \o adds.text, !.base = base]

\* createDottedPath(): a no-op while a container reference is null;
\* otherwise the groups are cleared and the loop fills them
\* the refresh without the test of the three group references
createDottedPathUnguarded(ready, w, pos) ==
  LET c == ClearGroups(w)
      base == Floor(pos)
      adds == LoopTable[base]
  IN [c EXCEPT !.dots = adds.dots, !.cards = adds.cards,
               !.text = adds.text, !.base = base]

createDottedPath(ready, w, pos) ==
  IF ~ready THEN w
  ELSE LET c == ClearGroups(w)
           base == Floor(pos)
           adds == LoopTable[base]
       IN [c EXCEPT !.dots = adds.dots, !.cards = adds.cards,
                    !.text = adds.text, !.base = base]

\* the containers in the current state
Window == Containers(dotsGroup, cardsGroup, textGroup, windowBase)

\* the objects ms once the containers are w: clear() removes every object
\* from its parent, whoever else still refers to it
Removed(ms, w) ==
  IF w.cleared THEN [k \in 1..Len(ms) |-> [ms[k] EXCEPT !.attached = FALSE]]
  ELSE ms

\* the three groups become w
SetGroups(w) ==
  /\ dotsGroup' = w.dots
  /\ cardsGroup' = w.cards
  /\ textGroup' = w.text
  /\ windowBase' = w.base

\* the containers become w
SetWindow(w) ==
  /\ SetGroups(w)
  /\ meshes' = Removed(meshes, w)

----------------------------------------------------------------------------
(* Animation scheduler: tweens on positionRef *)

\* a tween created by gsap.to(positionRef, {current: to, duration, ease})
Tween(owner, from, to) ==
  [owner |-> owner, from |-> from, to |-> to, elapsed |-> 0]

Duration(owner) == IF owner = "snap" THEN SnapDuration ELSE ScrollDuration

\* the "power2.out" ease, 1 - (1 - t)^3 at t = e / d, applied to from..to
TweenValue(from, to, e, d) ==
  IF e >= d THEN to
  ELSE from + ((to - from) * (d * d * d - (d - e) * (d - e) * (d - e))) \div (d * d * d)

\* tween.kill() / killTweensOf for one owner's tweens
KillTweens(tws, owner) == SelectSeq(tws, LAMBDA tw : tw.owner # owner)

\* what one scheduler tick has done so far: Position, isSnapping, the
\* containers and the tweens still running
TickState(pos, snapping, w, live) ==
  [pos |-> pos, snapping |-> snapping, w |-> w, live |-> live]

\* the update that reports the snap complete one frame before its end
StepTweenIdleEarly(tw, st) ==
  LET e == tw.elapsed + FrameStep
      d == Duration(tw.owner)
      p == TweenValue(tw.from, tw.to, e, d)
      refresh == tw.owner = "snap" \/ hookOnUpdate
      w == IF refresh THEN createDottedPath(groupsReady, st.w, p) ELSE st.w
  IN TickState(p,
               IF e + FrameStep >= d /\ tw.owner = "snap" THEN FALSE ELSE st.snapping,
               w,
               IF e >= d THEN st.live ELSE Append(st.live, [tw EXCEPT !.elapsed = e]))

\* one tween's update in a tick: write Position, run onUpdate, and on the
\* last update run onComplete and drop the tween
StepTween(tw, st) ==
  LET e == tw.elapsed + FrameStep
      d == Duration(tw.owner)
      p == TweenValue(tw.from, tw.to, e, d)
      refresh == tw.owner = "snap" \/ hookOnUpdate
      w == IF refresh THEN createDottedPath(groupsReady, st.w, p) ELSE st.w
  IN TickState(p,
               IF e >= d /\ tw.owner = "snap" THEN FALSE ELSE st.snapping,
               w,
               IF e >= d THEN st.live ELSE Append(st.live, [tw EXCEPT !.elapsed = e]))

\* the scheduler updates its tweens in creation order
RECURSIVE RunTweens(_, _)
RunTweens(tws, st) ==
  IF tws = << >> THEN st ELSE RunTweens(Tail(tws), StepTween(Head(tws), st))

\* fixed-point cube and the eases the hover animations name, each a map
\* from progress u (0..CurveScale) to the eased fraction
Cube(a) == Mul(Mul(a, a), a)

\* "power1.out", the scheduler's default ease: 1 - (1 - u)^2
Power1Out(u) == CurveScale - Mul(CurveScale - u, CurveScale - u)

\* "power2.out": 1 - (1 - u)^3
Power2Out(u) == CurveScale - Cube(CurveScale - u)

\* "power2.inOut": 4u^3 below one half, 1 - (2 - 2u)^3 / 2 above
Power2InOut(u) ==
  IF 2 * u < CurveScale THEN 4 * Cube(u)
  ELSE CurveScale - Cube(2 * CurveScale - 2 * u) \div 2

\* "back.out(1.7)": 1 - q^2 (2.7 q - 1.7) with q = 1 - u
BackOut(u) ==
  LET q == CurveScale - u
  IN CurveScale - Mul(Mul(q, q), (27 * q - 17 * CurveScale) \div 10)

\* 2^(-x) for x >= 0: halved once per whole unit, the fraction by the
\* exponential series in y = frac(x) ln 2
Exp2Neg(x) ==
  LET n == x \div CurveScale
      y == Mul(x % CurveScale, (693 * CurveScale) \div 1000)
      frac == CurveScale - y + Mul(y, y) \div 2 - Cube(y) \div 6
              + Mul(Cube(y), y) \div 24
  IN frac \div (2 ^ n)

\* "elastic.out(1, 0.5)": 2^(-10u) sin((u - 1/8) 4 pi) + 1
ElasticOut(u) ==
  CurveScale + Mul(Exp2Neg(10 * u), Sin(Mul(u - CurveScale \div 8, 4 * Pi)))

Ease(ease, u) ==
  CASE ease = "power2.out" -> Power2Out(u)
    [] ease = "power2.inOut" -> Power2InOut(u)
    [] ease = "back.out(1.7)" -> BackOut(u)
    [] ease = "elastic.out(1, 0.5)" -> ElasticOut(u)
    [] OTHER -> Power1Out(u)

\* a tween created by gsap.to(object.<prop>, {..., duration, ease}), or by
\* timeline.to(..., at) when delay is its place on the timeline; the start
\* value is read when the tween first renders
ObjTween(owner, target, prop, to, delay, duration, ease) ==
  [owner |-> owner, target |-> target, prop |-> prop, from |-> None, to |-> to,
   elapsed |-> -delay, duration |-> duration, ease |-> ease]

\* what one tick has done so far to the objects and their tweens
ObjTickState(ms, live) == [ms |-> ms, live |-> live]

\* one object tween's update in a tick: nothing before its start; then it
\* writes its property whether or not the object still has a parent, and
\* is dropped after its last update
StepObjTween(tw, st) ==
  LET e == tw.elapsed + FrameStep
      from == IF tw.from = None THEN st.ms[tw.target][tw.prop] ELSE tw.from
      value == IF e >= tw.duration THEN tw.to
               ELSE from + ((tw.to - from)
                            * Ease(tw.ease, (e * CurveScale) \div tw.duration))
                           \div CurveScale
  IN IF e <= 0 THEN ObjTickState(st.ms, Append(st.live, [tw EXCEPT !.elapsed = e]))
     ELSE ObjTickState([st.ms EXCEPT ![tw.target][tw.prop] = value],
                       IF e >= tw.duration THEN st.live
                       ELSE Append(st.live, [tw EXCEPT !.elapsed = e, !.from = from]))

RECURSIVE RunObjTweens(_, _)
RunObjTweens(tws, st) ==
  IF tws = << >> THEN st ELSE RunObjTweens(Tail(tws), StepObjTween(Head(tws), st))

----------------------------------------------------------------------------
(* SceneManager: the background gradient and its cross-fade *)

\* the first colour (top) of each entry of createGradientCanvas's table
gradientColors ==
  << "#7EACF1", "#FFB6C1", "#98FB98", "#DDA0DD", "#F0E68C",
     "#FFA07A", "#87CEEB", "#D8BFD8", "#F5DEB3", "#FFE4E1",
     "#E0FFFF", "#FFEFD5", "#E6E6FA", "#F0FFF0", "#FFF8DC" >>

\* createBackgroundGradient's table of fog colours
fogColors ==
  << "#7EACF1", "#FFB6C1", "#98FB98", "#DDA0DD", "#F0E68C",
     "#FFA07A", "#87CEEB", "#D8BFD8", "#F5DEB3", "#FFE4E1",
     "#E0FFFF", "#FFEFD5", "#E6E6FA", "#F0FFF0", "#FFF8DC" >>

\* table[k] of a zero-based array: undefined outside it
Lookup(table, k) ==
  IF k \in 0..(Len(table) - 1) THEN table[k + 1] ELSE "undefined"

\* a canvas reference that is null
NullCanvas == [agentIndex |-> None, top |-> "null"]

\* no map: the sphere does not exist yet
NullMap == [previous |-> NullCanvas, current |-> NullCanvas, alpha |-> 0]

\* the canvas with the table entry taken at agentIndex itself
createGradientCanvasNoWrap(agentIndex) ==
  [agentIndex |-> agentIndex, top |-> Lookup(gradientColors, agentIndex)]

\* createGradientCanvas(agentIndex) once the context has been acquired: the
\* canvas painted with entry agentIndex % gradientColors.length
createGradientCanvas(agentIndex) ==
  [agentIndex |-> agentIndex,
   top |-> Lookup(gradientColors, agentIndex % Len(gradientColors))]

\* the fields of SceneManager as one value
SceneState(sc, index, prev, cur, map, fg, progress, tws, outcome) ==
  [scene |-> sc, index |-> index, prev |-> prev, cur |-> cur, map |-> map,
   fog |-> fg, progress |-> progress, tws |-> tws, outcome |-> outcome]

\* the outcome of a step's acquisitions: the first failure is kept
Outcome(s, o) ==
  IF s.outcome \in {"none", "acquired"} THEN [s EXCEPT !.outcome = o] ELSE s

\* createBackgroundGradient(scene, agentIndex), called from where: the
\* throw of createGradientCanvas leaves every field as it was
createBackgroundGradient(s, agentIndex, where) ==
  IF ~context2d THEN Outcome(s, where)
  ELSE [Outcome(s, "acquired") EXCEPT
          !.map = [previous |-> NullCanvas,
                   current |-> createGradientCanvas(agentIndex),
                   alpha |-> CurveScale],
          !.fog = Lookup(fogColors, agentIndex % Len(fogColors)),
          !.index = agentIndex]

\* createScene()
createScene(s) ==
  createBackgroundGradient([s EXCEPT !.scene = TRUE], 0, "thrown to caller")

\* a tween created by gsap.to(this.transitionProgress, {value: 1, ...})
BgTween(agentIndex) == [agentIndex |-> agentIndex, from |-> None, elapsed |-> 0]

\* updateBackgroundForAgent with no instant path: without the scheduler
\* the call returns after storing the canvases
updateBackgroundForAgentNoFallback(s, agentIndex) ==
  IF ~s.scene \/ agentIndex = s.index THEN s
  ELSE IF ~context2d THEN Outcome([s EXCEPT !.prev = s.cur], "thrown to caller")
  ELSE LET s1 == [Outcome(s, "acquired") EXCEPT
                    !.prev = s.cur, !.cur = createGradientCanvas(agentIndex)]
       IN IF gsap
          THEN [s1 EXCEPT !.progress = 0,
                          !.tws = Append(s.tws, BgTween(agentIndex))]
          ELSE s1

\* updateBackgroundForAgent(agentIndex)
updateBackgroundForAgent(s, agentIndex) ==
  IF ~s.scene \/ agentIndex = s.index THEN s
  ELSE IF ~context2d THEN Outcome([s EXCEPT !.prev = s.cur], "thrown to caller")
  ELSE LET s1 == [Outcome(s, "acquired") EXCEPT
                    !.prev = s.cur, !.cur = createGradientCanvas(agentIndex)]
       IN IF gsap
          THEN [s1 EXCEPT !.progress = 0,
                          !.tws = Append(s.tws, BgTween(agentIndex))]
          ELSE createBackgroundGradient(s1, agentIndex, "thrown to caller")

\* updateTransitionFrame(): returns while a canvas or the texture is
\* missing, and when the context cannot be acquired; otherwise the sphere
\* shows the two canvases blended at transitionProgress
updateTransitionFrame(s) ==
  IF s.prev = NullCanvas \/ s.cur = NullCanvas \/ s.map = NullMap THEN s
  ELSE IF ~context2d THEN Outcome(s, "skipped")
  ELSE [Outcome(s, "acquired") EXCEPT
          !.map = [previous |-> s.prev, current |-> s.cur, alpha |-> s.progress]]

\* one background tween's update in a tick: transitionProgress is written,
\* onUpdate draws the frame, and on the last update the tween is dropped
\* and onComplete applies the gradient
StepBgTween(tw, s) ==
  LET e == tw.elapsed + FrameStep
      from == IF tw.from = None THEN s.progress ELSE tw.from
      value == IF e >= BackgroundDuration THEN CurveScale
               ELSE from + ((CurveScale - from)
                            * Power2InOut((e * CurveScale) \div BackgroundDuration))
                           \div CurveScale
      s1 == updateTransitionFrame([s EXCEPT !.progress = value])
  IN IF e >= BackgroundDuration
     THEN createBackgroundGradient(s1, tw.agentIndex, "thrown to scheduler")
     ELSE [s1 EXCEPT !.tws = Append(s1.tws, [tw EXCEPT !.elapsed = e, !.from = from])]

RECURSIVE RunBgTweens(_, _)
RunBgTweens(tws, s) ==
  IF tws = << >> THEN s ELSE RunBgTweens(Tail(tws), StepBgTween(Head(tws), s))

\* SceneManager in the current state, before a step's acquisitions
SceneNow ==
  SceneState(scene, currentGradientIndex, previousGradientCanvas,
             currentGradientCanvas, sphereMap, fog, transitionProgress, bgTweens,
             "none")

\* SceneManager becomes s
SetScene(s) ==
  /\ scene' = s.scene
  /\ currentGradientIndex' = s.index
  /\ previousGradientCanvas' = s.prev
  /\ currentGradientCanvas' = s.cur
  /\ sphereMap' = s.map
  /\ fog' = s.fog
  /\ transitionProgress' = s.progress
  /\ bgTweens' = s.tws
  /\ surfaceOutcome' = s.outcome

\* the page's effect calls sceneManager.createScene()
CreateScene ==
  /\ ~disposed
  /\ ~scene
  /\ SetScene(createScene(SceneNow))
  /\ intent' = NoInput
  /\ UNCHANGED <<gsap, navVars, hookVars, hookOnUpdate, disposed, context2d, requested, bgCount,
                 hoverVars, touchVars, windowVars, rebuilds, countVars>>

\* a user of SceneManager calls updateBackgroundForAgent(agentIndex)
UpdateBackground(agentIndex) ==
  /\ bgCount < MaxBackgroundCalls
  /\ bgCount' = bgCount + 1
  /\ requested' = agentIndex
  /\ SetScene(updateBackgroundForAgent(SceneNow, agentIndex))
  /\ intent' = NoInput
  /\ UNCHANGED <<gsap, navVars, hookVars, hookOnUpdate, disposed, context2d, hoverVars,
                 touchVars, windowVars, rebuilds, countVars>>

\* environment: the browser stops or resumes handing out 2D contexts
ContextChange ==
  /\ context2d' = ~context2d
  /\ intent' = NoInput
  /\ UNCHANGED <<gsap, navVars, hookVars, hookOnUpdate, disposed, scene, currentGradientIndex,
                 previousGradientCanvas, currentGradientCanvas, sphereMap, fog,
                 transitionProgress, bgTweens, surfaceOutcome, requested, bgCount,
                 hoverVars, touchVars, windowVars, rebuilds, countVars>>

\* the scheduler's frame callback
GsapTick ==
  /\ posTweens # << >> \/ objTweens # << >> \/ bgTweens # << >>
  /\ LET st == RunTweens(posTweens, TickState(position, isSnapping, Window, << >>))
         ob == RunObjTweens(objTweens, ObjTickState(Removed(meshes, st.w), << >>))
     IN /\ position' = st.pos
        /\ isSnapping' = st.snapping
        /\ posTweens' = st.live
        /\ SetGroups(st.w)
        /\ meshes' = ob.ms
        /\ objTweens' = ob.live
  /\ intent' = NoInput
  /\ rebuilds' = IF posTweens = << >> THEN rebuilds ELSE 0
  /\ IF bgTweens = << >>
     THEN UNCHANGED <<scene, currentGradientIndex, previousGradientCanvas,
                      currentGradientCanvas, sphereMap, fog, transitionProgress,
                      bgTweens, surfaceOutcome>>
     ELSE SetScene(RunBgTweens(bgTweens, [SceneNow EXCEPT !.tws = << >>]))
  /\ UNCHANGED <<gsap, velocity, hookVars, hookOnUpdate, disposed, context2d, requested,
                 bgCount, animatedObjects, currentlyHoveredObject, pointerCount,
                 touchVars, groupsReady, countVars>>

\* useGSAP: the scheduler script finishes loading
GsapLoaded ==
  /\ ~gsap
  /\ gsap' = TRUE
  /\ intent' = NoInput
  /\ UNCHANGED <<navVars, hookVars, hookOnUpdate, disposed, sceneVars, hoverVars, touchVars, windowVars, rebuilds, countVars>>

----------------------------------------------------------------------------
(* NavigationStateMachine: snapToAgent *)

\* the target without the clamp of the section at 0
SnapTargetUnclamped(pos, direction) ==
  Rows((Section(pos) + Sign(direction)) * SectionSize)

\* the target taken from the nearest section instead of the floor
SnapTargetRounded(pos, direction) ==
  Rows(Max(0, (pos + Rows(SectionSize) \div 2) \div Rows(SectionSize) + Sign(direction))
       * SectionSize)

\* target = max(0, floor(position / 60) + sign(d)) * 60
SnapTarget(pos, direction) ==
  Rows(Max(0, Section(pos) + Sign(direction)) * SectionSize)

\* snapToAgent that leaves the momentum velocity as it is
snapToAgentKeepsVelocity(direction) ==
  LET target == SnapTarget(position, direction)
  IN IF target = position
     THEN UNCHANGED <<navVars, windowVars, rebuilds>>
     ELSE /\ target <= Rows(MaxSection * SectionSize)
          /\ UNCHANGED velocity
          /\ IF gsap
             THEN /\ isSnapping' = TRUE
                  /\ posTweens' = << Tween("snap", position, target) >>
                  /\ UNCHANGED <<position, windowVars, rebuilds>>
             ELSE /\ position' = target
                  /\ SetWindow(createDottedPath(groupsReady, Window, target))
                  /\ rebuilds' = 0
                  /\ UNCHANGED <<isSnapping, posTweens, groupsReady>>

\* snapToAgent(direction), called by the input handlers while Idle
snapToAgent(direction) ==
  LET target == SnapTarget(position, direction)
  IN IF target = position
     THEN UNCHANGED <<navVars, windowVars, rebuilds>>
     ELSE /\ target <= Rows(MaxSection * SectionSize)
          /\ velocity' = 0
          /\ IF gsap
             THEN /\ isSnapping' = TRUE
                  /\ posTweens' = << Tween("snap", position, target) >>
                  /\ UNCHANGED <<position, windowVars, rebuilds>>
             ELSE /\ position' = target
                  /\ SetWindow(createDottedPath(groupsReady, Window, target))
                  /\ rebuilds' = 0
                  /\ UNCHANGED <<isSnapping, posTweens, groupsReady>>

----------------------------------------------------------------------------
(* InputHandler: wheel, keyboard and touch *)

\* handleScroll(event)
handleScroll(ctrlKey, metaKey, deltaY) ==
  /\ IF ~ctrlKey /\ ~metaKey /\ ~isSnapping
     THEN LET scrollDirection == IF deltaY > 0 THEN 1 ELSE -1
          IN snapToAgent(scrollDirection) /\ intent' = scrollDirection
     ELSE UNCHANGED <<navVars, windowVars, rebuilds>> /\ intent' = 0
  /\ UNCHANGED <<gsap, hookVars, hookOnUpdate, disposed, sceneVars, hoverVars, touchVars, countVars>>

\* handleKeyDown without the  if (isSnappingRef.current) return;  line
handleKeyDownUnguarded(key) ==
  /\ IF key \in {"ArrowUp", "w", "W"} THEN snapToAgent(-1) /\ intent' = -1
     ELSE IF key \in {"ArrowDown", "s", "S"} THEN snapToAgent(1) /\ intent' = 1
     ELSE UNCHANGED <<navVars, windowVars, rebuilds>> /\ intent' = 0
  /\ UNCHANGED <<gsap, hookVars, hookOnUpdate, disposed, sceneVars, hoverVars, touchVars, countVars>>

\* handleKeyDown(event)
handleKeyDown(key) ==
  /\ IF isSnapping THEN UNCHANGED <<navVars, windowVars, rebuilds>> /\ intent' = 0
     ELSE IF key \in {"ArrowUp", "w", "W"} THEN snapToAgent(-1) /\ intent' = -1
     ELSE IF key \in {"ArrowDown", "s", "S"} THEN snapToAgent(1) /\ intent' = 1
     ELSE UNCHANGED <<navVars, windowVars, rebuilds>> /\ intent' = 0
  /\ UNCHANGED <<gsap, hookVars, hookOnUpdate, disposed, sceneVars, hoverVars, touchVars, countVars>>

\* handleTouchStart(event)
handleTouchStart(touches, clientY) ==
  /\ IF touches = 1
     THEN touchStartY' = clientY /\ touchDelta' = 0
     ELSE UNCHANGED touchVars
  /\ intent' = NoInput
  /\ UNCHANGED <<gsap, navVars, hookVars, hookOnUpdate, disposed, sceneVars, hoverVars, windowVars, rebuilds, countVars>>

\* handleTouchMove(event)
handleTouchMove(touches, clientY) ==
  /\ IF touches = 1 /\ ~isSnapping
     THEN touchDelta' = touchStartY - clientY
     ELSE UNCHANGED touchDelta
  /\ intent' = NoInput
  /\ UNCHANGED <<gsap, navVars, hookVars, hookOnUpdate, disposed, sceneVars, hoverVars, touchStartY, windowVars,
                 rebuilds, countVars>>

\* the touchend that leaves the accumulated delta as it is
handleTouchEndKeepsDelta ==
  /\ IF Abs(touchDelta) > TouchThreshold /\ ~isSnapping
     THEN LET direction == IF touchDelta > 0 THEN 1 ELSE -1
          IN snapToAgent(direction) /\ intent' = direction
     ELSE UNCHANGED <<navVars, windowVars, rebuilds>> /\ intent' = 0
  /\ UNCHANGED <<gsap, hookVars, hookOnUpdate, disposed, sceneVars, hoverVars, touchVars,
                 countVars>>

\* handleTouchEnd()
handleTouchEnd ==
  /\ IF Abs(touchDelta) > TouchThreshold /\ ~isSnapping
     THEN LET direction == IF touchDelta > 0 THEN 1 ELSE -1
          IN snapToAgent(direction) /\ intent' = direction
     ELSE UNCHANGED <<navVars, windowVars, rebuilds>> /\ intent' = 0
  /\ touchDelta' = 0
  /\ UNCHANGED <<gsap, hookVars, hookOnUpdate, disposed, sceneVars, hoverVars, touchStartY, countVars>>

----------------------------------------------------------------------------
(* MomentumScroller *)

\* velocity *= frictionFactor, over one frame
Friction(v) == Sign(v) * (Abs(v) \div 2)

\* a drag delta adds to the velocity; suspended while a snap runs
addVelocity(delta) ==
  /\ dragCount < MaxDrags
  /\ dragCount' = dragCount + 1
  /\ IF isSnapping THEN UNCHANGED velocity
     ELSE /\ Abs(velocity + delta) <= MaxVelocity
          /\ velocity' = velocity + delta
  /\ intent' = NoInput
  /\ UNCHANGED <<gsap, position, isSnapping, posTweens, hookVars, hookOnUpdate, disposed, sceneVars, hoverVars,
                 touchVars, windowVars, rebuilds, scrollCount>>

\* EnhancedMomentumScroller.update(): position += velocity * dt, clamped at
\* 0, then the friction, then the window refresh; suspended while a snap runs
momentumUpdate ==
  IF isSnapping \/ velocity = 0
  THEN UNCHANGED <<navVars, windowVars, rebuilds>>
  ELSE LET p == Max(0, position + velocity * FrameStep)
       IN /\ p <= Rows(MaxSection * SectionSize)
          /\ position' = p
          /\ velocity' = Friction(velocity)
          /\ SetWindow(createDottedPath(groupsReady, Window, p))
          /\ rebuilds' = 0
          /\ UNCHANGED <<isSnapping, posTweens, groupsReady>>

\* the render loop's frame: animate()
animate ==
  /\ momentumUpdate
  /\ intent' = NoInput
  /\ UNCHANGED <<gsap, hookVars, hookOnUpdate, disposed, sceneVars, hoverVars, touchVars, countVars>>

----------------------------------------------------------------------------
(* useSmoothScroll *)

\* scrollTo(targetPosition), on the hook's and the scheduler's state
scrollToStep(targetPosition) ==
  IF ~gsap THEN UNCHANGED <<posTweens, hookVars>>
  ELSE /\ targetPositionRef' = targetPosition
       /\ currentTweenRef' = "tween"
       /\ posTweens' =
            Append(IF currentTweenRef # "null" THEN KillTweens(posTweens, "scroll")
                   ELSE posTweens,
                   Tween("scroll", position, targetPosition))

\* scrollTo(targetPosition)
scrollTo(targetPosition) ==
  /\ scrollCount < MaxScrollCalls
  /\ scrollCount' = scrollCount + 1
  /\ scrollToStep(targetPosition)
  /\ intent' = NoInput
  /\ UNCHANGED <<gsap, position, isSnapping, velocity, hookOnUpdate, disposed, sceneVars, hoverVars, touchVars,
                 windowVars, rebuilds, dragCount>>

\* scrollBy(delta)
scrollBy(delta) ==
  /\ scrollCount < MaxScrollCalls
  /\ scrollCount' = scrollCount + 1
  /\ LET newTarget == targetPositionRef + delta
     IN scrollToStep(newTarget)
  /\ intent' = NoInput
  /\ UNCHANGED <<gsap, position, isSnapping, velocity, hookOnUpdate, disposed, sceneVars, hoverVars, touchVars,
                 windowVars, rebuilds, dragCount>>

\* stopScroll()
stopScroll ==
  /\ IF currentTweenRef # "null"
     THEN /\ posTweens' = KillTweens(posTweens, "scroll")
          /\ currentTweenRef' = "null"
     ELSE UNCHANGED <<posTweens, currentTweenRef>>
  /\ intent' = NoInput
  /\ UNCHANGED <<gsap, position, isSnapping, velocity, targetPositionRef,
                 hookOnUpdate, disposed, sceneVars, hoverVars, touchVars, windowVars, rebuilds, countVars>>

----------------------------------------------------------------------------
(* InteractionManager: hover *)

\* raycastAndHandleHover: the children the ray is tested against, those of
\* the three groups whose userData.isClickable is set
interactiveObjects ==
  SelectSeq(cardsGroup, LAMBDA child : child.isClickable)
  \o SelectSeq(textGroup, LAMBDA child : child.isClickable)
  \o SelectSeq(dotsGroup, LAMBDA child : child.isClickable)

\* getDotColor: black for every dot (one colour channel is followed)
getDotColor(globalRowIndex, curveOffset) == 0

\* the colour channel of a breakable cube's material
CubeColor == CurveScale \div 2

\* material.color of a spawned object
materialColor(o) ==
  IF o.kind = "dot" THEN getDotColor(o.rowIndex, calculateRoundedCurve(o.rowIndex))
  ELSE CubeColor

\* a spawned object as the interaction code sees it: its userData and the
\* properties hover animates (uniform scale, position.x, rotation.z, one
\* colour channel), and whether it is still a child of its group
NewMesh(o) ==
  [obj |-> o, attached |-> TRUE, scale |-> CurveScale, position |-> positionX(o),
   rotation |-> 0, color |-> materialColor(o)]

\* the object of the groups that carries userData o, as a place in ms
\* (0: the pointer has not hit it yet)
MeshOf(ms, o) ==
  LET found == {k \in 1..Len(ms) : ms[k].attached /\ ms[k].obj = o}
  IN IF found = {} THEN 0 ELSE CHOOSE k \in found : TRUE

\* the interaction state a handler works on
HoverState(ms, an, cur, tws) == [ms |-> ms, an |-> an, cur |-> cur, tws |-> tws]

\* stopHoverAnimation(object): isHovered is cleared and revert tweens are
\* started for scale, position and, if a colour was stored, colour
\* the revert that leaves isHovered set
stopHoverAnimationKeepsHovered(h, k) ==
  IF k \notin DOMAIN h.an \/ ~gsap THEN h
  ELSE LET data == h.an[k]
       IN [h EXCEPT
             !.tws = h.tws
               \o << ObjTween("revert", k, "scale", data.originalScale, 0,
                              RevertDuration, "power2.out"),
                     ObjTween("revert", k, "position", data.originalPosition, 0,
                              RevertDuration, "power2.out") >>
               \o (IF data.originalColor # None
                   THEN << ObjTween("revert", k, "color", data.originalColor, 0,
                                    RevertDuration, "power2.out") >>
                   ELSE << >>)]

stopHoverAnimation(h, k) ==
  IF k \notin DOMAIN h.an THEN h
  ELSE LET data == h.an[k]
           an == [h.an EXCEPT ![k].isHovered = FALSE]
       IN IF ~gsap THEN [h EXCEPT !.an = an]
          ELSE [h EXCEPT
                  !.an = an,
                  !.tws = h.tws
                    \o << ObjTween("revert", k, "scale", data.originalScale, 0,
                                   RevertDuration, "power2.out"),
                          ObjTween("revert", k, "position", data.originalPosition, 0,
                                   RevertDuration, "power2.out") >>
                    \o (IF data.originalColor # None
                        THEN << ObjTween("revert", k, "color", data.originalColor, 0,
                                         RevertDuration, "power2.out") >>
                        ELSE << >>)]

\* startDotHoverAnimation(object)
startDotHoverAnimation(h, k) ==
  IF ~gsap THEN h
  ELSE LET data == h.an[k]
           columnIndex == h.ms[k].obj.columnIndex
           direction == IF columnIndex % 4 = 1 THEN 1 ELSE -1
           moves ==
             IF columnIndex % 2 = 0
             THEN << ObjTween("hover", k, "scale", data.originalScale * 2, 0,
                              DotScaleDuration, "elastic.out(1, 0.5)") >>
             ELSE << ObjTween("hover", k, "position",
                              data.originalPosition + direction * 3 * CurveScale, 0,
                              DotMoveDuration, "back.out(1.7)"),
                     ObjTween("hover", k, "rotation", data.originalRotation + 2 * Pi, 0,
                              DotSpinDuration, "power2.inOut") >>
           originalColor == h.ms[k].color
       IN [h EXCEPT
             !.an = [h.an EXCEPT ![k].originalColor = originalColor],
             !.tws = h.tws \o moves
               \o << ObjTween("hover", k, "color", Min(CurveScale, originalColor * 2), 0,
                              DotGlowDuration, "power2.out") >>]

\* animateCubeHover(object, data, globalRowIndex): one timeline
animateCubeHover(h, k) ==
  IF ~gsap THEN h
  ELSE LET data == h.an[k]
           direction == IF h.ms[k].obj.rowIndex % 2 = 0 THEN 1 ELSE -1
           originalColor == h.ms[k].color
       IN [h EXCEPT
             !.an = [h.an EXCEPT ![k].originalColor = originalColor],
             !.tws = h.tws
               \o << ObjTween("hover", k, "scale", (data.originalScale * 14) \div 10, 0,
                              CubeScaleDuration, "power2.out"),
                     ObjTween("hover", k, "position",
                              data.originalPosition + direction * 2 * CurveScale, 1,
                              CubeMoveDuration, "back.out(1.7)"),
                     ObjTween("hover", k, "rotation",
                              data.originalRotation + Pi \div 10, 1,
                              CubeSpinDuration, "power2.inOut"),
                     ObjTween("hover", k, "color", CurveScale, 0,
                              CubeFlashDuration, "default"),
                     ObjTween("hover", k, "color", originalColor, 3,
                              CubeFadeDuration, "default") >>]

\* startHoverAnimation(object): the snapshot is taken if the object has no
\* entry yet; then the animation of the object's shapeType is started (the
\* pointer targets explored are dots and breakable cubes)
startHoverAnimation(h, k) ==
  LET an == IF k \notin DOMAIN h.an
            THEN (k :> [originalScale |-> h.ms[k].scale,
                        originalPosition |-> h.ms[k].position,
                        originalRotation |-> h.ms[k].rotation,
                        originalColor |-> None,
                        isHovered |-> TRUE]) @@ h.an
            ELSE [h.an EXCEPT ![k].isHovered = TRUE]
      h1 == [h EXCEPT !.an = an]
  IN IF h.ms[k].obj.kind = "dot" THEN startDotHoverAnimation(h1, k)
     ELSE animateCubeHover(h1, k)

\* raycastAndHandleHover() after the ray has been cast: hit is the first
\* intersected object, 0 if there is none
raycastAndHandleHover(h, hit) ==
  IF hit # 0
  THEN IF h.cur # hit
       THEN LET h1 == IF h.cur # 0 THEN stopHoverAnimation(h, h.cur) ELSE h
            IN [startHoverAnimation(h1, hit) EXCEPT !.cur = hit]
       ELSE h
  ELSE IF h.cur # 0
       THEN [stopHoverAnimation(h, h.cur) EXCEPT !.cur = 0]
       ELSE h

\* moveObjectWithCursor(event): the hovered object is put where the cursor
\* meets the plane z = 0
moveObjectWithCursor(h, x) ==
  IF h.cur = 0 THEN h ELSE [h EXCEPT !.ms[h.cur].position = x]

\* the objects once the first intersected one is known to the model
Hit(intersects) ==
  IF intersects = << >> \/ MeshOf(meshes, intersects[1]) # 0 THEN meshes
  ELSE Append(meshes, NewMesh(intersects[1]))

\* the interaction state becomes h
SetHover(h) ==
  /\ meshes' = h.ms
  /\ animatedObjects' = h.an
  /\ currentlyHoveredObject' = h.cur
  /\ objTweens' = h.tws

\* InteractionManager.handlePointerMove: intersects is what the ray meets
\* among interactiveObjects, x the cursor's place on the plane
handlePointerMove(intersects, x) ==
  /\ pointerCount < MaxPointerEvents
  /\ pointerCount' = pointerCount + 1
  /\ LET ms == Hit(intersects)
         hit == IF intersects = << >> THEN 0 ELSE MeshOf(ms, intersects[1])
         h == HoverState(ms, animatedObjects, currentlyHoveredObject, objTweens)
     IN IF ~groupsReady
        THEN UNCHANGED <<meshes, animatedObjects, currentlyHoveredObject, objTweens>>
        ELSE SetHover(moveObjectWithCursor(raycastAndHandleHover(h, hit), x))
  /\ intent' = NoInput
  /\ UNCHANGED <<gsap, navVars, hookVars, hookOnUpdate, disposed, sceneVars, touchVars, groupVars,
                 rebuilds, countVars>>

\* InteractionManager.handleTouchMove: hover by touch, for one finger only
hoverTouchMove(touches, intersects) ==
  /\ pointerCount < MaxPointerEvents
  /\ pointerCount' = pointerCount + 1
  /\ LET ms == Hit(intersects)
         hit == IF intersects = << >> THEN 0 ELSE MeshOf(ms, intersects[1])
         h == HoverState(ms, animatedObjects, currentlyHoveredObject, objTweens)
     IN IF touches # 1 \/ ~groupsReady
        THEN UNCHANGED <<meshes, animatedObjects, currentlyHoveredObject, objTweens>>
        ELSE SetHover(raycastAndHandleHover(h, hit))
  /\ intent' = NoInput
  /\ UNCHANGED <<gsap, navVars, hookVars, hookOnUpdate, disposed, sceneVars, touchVars, groupVars,
                 rebuilds, countVars>>

\* getCurrentGradientInfo(): the gradient index as stored and the palette
getCurrentGradientInfo ==
  [index |-> currentGradientIndex, colors |-> gradientColors]

\* SceneManager.dispose(): the texture and the sphere's geometry and
\* material are disposed and the two transition canvases are dropped; the
\* sphere stays in the scene and no tween is killed
sceneManagerDispose(s) ==
  [s EXCEPT !.prev = NullCanvas, !.cur = NullCanvas]

\* InteractionManager.dispose()
interactionManagerDispose(h) ==
  [h EXCEPT !.an = << >>, !.cur = 0]

\* the cleanup returned by the page's effect: the hover listeners are
\* removed, the tweens of positionRef are killed, the managers are disposed
\* and the animation frame is cancelled
Cleanup ==
  /\ ~disposed
  /\ groupsReady \/ scene
  /\ disposed' = TRUE
  /\ posTweens' = IF gsap THEN << >> ELSE posTweens
  /\ SetScene([sceneManagerDispose(SceneNow) EXCEPT !.outcome = surfaceOutcome])
  /\ SetHover(interactionManagerDispose(
                HoverState(meshes, animatedObjects, currentlyHoveredObject, objTweens)))
  /\ intent' = NoInput
  /\ UNCHANGED <<gsap, position, isSnapping, velocity, hookVars, hookOnUpdate,
                 context2d, requested, bgCount, pointerCount, touchVars, groupVars,
                 rebuilds, countVars>>

----------------------------------------------------------------------------
(* The page and the window on their own *)

\* DottedPath's effect: the groups are created and the first window is built
Setup ==
  /\ ~groupsReady
  /\ groupsReady' = TRUE
  /\ SetWindow(createDottedPath(TRUE, Window, position))
  /\ intent' = NoInput
  /\ rebuilds' = 1
  /\ IF scene
     THEN UNCHANGED <<scene, currentGradientIndex, previousGradientCanvas,
                      currentGradientCanvas, sphereMap, fog, transitionProgress,
                      bgTweens, surfaceOutcome>>
     ELSE SetScene(createScene(SceneNow))
  /\ UNCHANGED <<gsap, navVars, hookVars, hookOnUpdate, disposed, context2d, requested, bgCount,
                 hoverVars, touchVars, countVars>>

\* pathRenderer.createDottedPath(), called by any of its users
Rebuild ==
  /\ SetWindow(createDottedPath(groupsReady, Window, position))
  /\ rebuilds' = IF groupsReady THEN Min(2, rebuilds + 1) ELSE rebuilds
  /\ intent' = NoInput
  /\ UNCHANGED <<gsap, navVars, hookVars, hookOnUpdate, disposed, sceneVars, hoverVars, touchVars, groupsReady, countVars>>

\* positionRef.current is written by one of its writers
MovePosition(p) ==
  /\ p # position
  /\ position' = p
  /\ rebuilds' = 0
  /\ intent' = NoInput
  /\ UNCHANGED <<gsap, isSnapping, velocity, posTweens, hookVars, hookOnUpdate, disposed, sceneVars, hoverVars,
                 touchVars, windowVars, countVars>>

\* a Position writer's update as the hover code meets it: positionRef.current
\* is written and createDottedPath() rebuilds the window in the same callback
scrollRefresh(p) ==
  /\ p # position
  /\ position' = p
  /\ SetWindow(createDottedPath(groupsReady, Window, p))
  /\ rebuilds' = 1
  /\ intent' = NoInput
  /\ UNCHANGED <<gsap, isSnapping, velocity, posTweens, hookVars, hookOnUpdate, disposed, sceneVars,
                 hoverVars, touchVars, groupsReady, countVars>>

----------------------------------------------------------------------------
(* The inputs explored *)

WheelDeltas == {-100, 0, 100}
Keys == {"ArrowUp", "w", "W", "ArrowDown", "s", "S", "a"}
TouchCounts == {1, 2}
TouchYs == {0, 40, 100}
DragDeltas == {-MaxVelocity, MaxVelocity \div 2}
ScrollTargets == {Rows(-30), Rows(30)}
ScrollDeltas == {Rows(-30)}
WindowRows == {-1, 0, 1, 29, 30, 31, 45, 60, 90, MaxSection * SectionSize}
WindowPositions == {Rows(r) + f : r \in WindowRows, f \in {0, PosScale - 1}}

\* the state before the page's effect has run
InitBare ==
  /\ gsap \in BOOLEAN
  /\ hookOnUpdate \in BOOLEAN
  /\ disposed = FALSE
  /\ position = 0
  /\ isSnapping = FALSE
  /\ velocity = 0
  /\ posTweens = << >>
  /\ currentTweenRef = "null"
  /\ targetPositionRef = 0
  /\ touchStartY = 0
  /\ touchDelta = 0
  /\ groupsReady = FALSE
  /\ dotsGroup = << >>
  /\ cardsGroup = << >>
  /\ textGroup = << >>
  /\ windowBase = None
  /\ intent = NoInput
  /\ rebuilds = 0
  /\ dragCount = 0
  /\ scrollCount = 0
  /\ meshes = << >>
  /\ animatedObjects = << >>
  /\ currentlyHoveredObject = 0
  /\ objTweens = << >>
  /\ pointerCount = 0
  /\ scene = FALSE
  /\ currentGradientIndex = 0
  /\ previousGradientCanvas = NullCanvas
  /\ currentGradientCanvas = NullCanvas
  /\ sphereMap = NullMap
  /\ fog = "null"
  /\ transitionProgress = 0
  /\ bgTweens = << >>
  /\ context2d = TRUE
  /\ surfaceOutcome = "none"
  /\ requested = None
  /\ bgCount = 0

\* the state once the page's effect has run: the groups exist and
\* createDottedPath() has built the window at Position 0
Init ==
  /\ gsap \in BOOLEAN
  /\ hookOnUpdate \in BOOLEAN
  /\ disposed = FALSE
  /\ position = 0
  /\ isSnapping = FALSE
  /\ velocity = 0
  /\ posTweens = << >>
  /\ currentTweenRef = "null"
  /\ targetPositionRef = 0
  /\ touchStartY = 0
  /\ touchDelta = 0
  /\ groupsReady = TRUE
  /\ LET w == createDottedPath(TRUE, Containers(<< >>, << >>, << >>, None), 0)
     IN /\ dotsGroup = w.dots
        /\ cardsGroup = w.cards
        /\ textGroup = w.text
        /\ windowBase = w.base
  /\ intent = NoInput
  /\ rebuilds = 1
  /\ dragCount = 0
  /\ scrollCount = 0
  /\ meshes = << >>
  /\ animatedObjects = << >>
  /\ currentlyHoveredObject = 0
  /\ objTweens = << >>
  /\ pointerCount = 0
  /\ scene = TRUE
  /\ currentGradientIndex = 0
  /\ previousGradientCanvas = NullCanvas
  /\ currentGradientCanvas = NullCanvas
  /\ sphereMap = [previous |-> NullCanvas, current |-> createGradientCanvas(0),
                  alpha |-> CurveScale]
  /\ fog = Lookup(fogColors, 0)
  /\ transitionProgress = 0
  /\ bgTweens = << >>
  /\ context2d = TRUE
  /\ surfaceOutcome = "none"
  /\ requested = None
  /\ bgCount = 0

Wheel == \E c \in BOOLEAN, m \in BOOLEAN, dy \in WheelDeltas : handleScroll(c, m, dy)
WheelPlain == \E dy \in WheelDeltas : handleScroll(FALSE, FALSE, dy)
KeyDown == \E key \in Keys : handleKeyDown(key)
TouchStart == \E n \in TouchCounts, y \in TouchYs : handleTouchStart(n, y)
TouchMove == \E n \in TouchCounts, y \in TouchYs : handleTouchMove(n, y)
Drag == \E delta \in DragDeltas : addVelocity(delta)
ScrollTo == \E t \in ScrollTargets : scrollTo(t)
ScrollBy == \E delta \in ScrollDeltas : scrollBy(delta)
Move == \E p \in WindowPositions : MovePosition(p)

\* what the pointer is aimed at: the two leftmost dots of the row at the
\* window's base and the left breakable cube of a row in the window
HoverTargets ==
  Range(SelectSeq(interactiveObjects, LAMBDA o :
     \/ o.kind = "dot" /\ o.rowIndex = windowBase /\ o.columnIndex \in {0, 1}
     \/ o.kind = "breakable_cube" /\ o.columnIndex = -1))
Intersections == {<< >>} \cup {<<o>> : o \in HoverTargets}
CursorXs == {2 * CurveScale}
HoverPositions == {Rows(visibleRange)}
PointerMove == ~disposed /\ \E i \in Intersections, x \in CursorXs : handlePointerMove(i, x)
HoverTouch == ~disposed /\ \E n \in TouchCounts, i \in Intersections : hoverTouchMove(n, i)
Scroll == ~disposed /\ \E p \in HoverPositions : scrollRefresh(p)

\* Navigation: intents, momentum, the hook and the scheduler
Next ==
  \/ GsapLoaded
  \/ GsapTick
  \/ animate
  \/ WheelPlain
  \/ Drag
  \/ ScrollTo
  \/ ScrollBy
  \/ stopScroll

Spec == Init /\ [][Next]_vars

\* The input handlers over the snap state machine
NextInput ==
  \/ GsapLoaded
  \/ GsapTick
  \/ Wheel
  \/ KeyDown
  \/ TouchStart
  \/ TouchMove
  \/ handleTouchEnd

SpecInput == Init /\ [][NextInput]_vars

\* The window under arbitrary Position writes and rebuild calls
NextWindow ==
  \/ Setup
  \/ Rebuild
  \/ Move

SpecWindow == InitBare /\ [][NextWindow]_vars

\* agent indices passed to updateBackgroundForAgent: the first, its
\* neighbour, one past the table and a very large one
AgentIndices == {0, 1, Len(gradientColors) + 1, 2000000011}
Background == ~disposed /\ \E agentIndex \in AgentIndices : UpdateBackground(agentIndex)

\* SceneManager from construction on
NextScene ==
  \/ Cleanup
  \/ GsapTick
  \/ CreateScene
  \/ Background
  \/ ContextChange

\* SceneManager constructed, the scene not yet created
InitScene == InitBare /\ ~hookOnUpdate

SpecScene == InitScene /\ [][NextScene]_vars

\* The calls that can come before the page is set up
NextBare ==
  \/ GsapLoaded
  \/ Rebuild
  \/ PointerMove
  \/ Background

SpecBare == InitBare /\ [][NextBare]_vars

\* Hover under pointer events, scheduler ticks and window rebuilds
NextHover ==
  \/ Cleanup
  \/ GsapTick
  \/ PointerMove
  \/ HoverTouch
  \/ Scroll

\* the page after setup, with the scheduler loaded or absent
InitHover == Init /\ ~hookOnUpdate

SpecHover == InitHover /\ [][NextHover]_vars

----------------------------------------------------------------------------
(* Properties *)


\* the running snap's tween
SnapTweens == SelectSeq(posTweens, LAMBDA tw : tw.owner = "snap")

\* this step is a directional event that made snapToAgent start a snap
SnapStarted ==
  /\ ~isSnapping
  /\ intent' \in {-1, 1}
  /\ (isSnapping' \/ position' # position)

\* where the snap started by this step goes: the tween's end value, or with no
\* scheduler the Position written at once
SnapGoal == IF isSnapping' THEN posTweens'[1].to ELSE position'

\* C1: a wheel, key or touch-end event that arrives while isSnapping is true
\* does not call snapToAgent and changes neither Position, the velocity, the
\* state, nor the running snap's tween (its target and its elapsed time).
IntentIgnoredWhileSnapping ==
  [][(isSnapping /\ intent' # NoInput) => (intent' = 0 /\ UNCHANGED navVars)]_vars

\* a directional event has just been ignored in the middle of a snap
IntentArrivedMidSnap ==
  /\ isSnapping
  /\ intent = 0
  /\ Len(posTweens) = 1
  /\ posTweens[1].owner = "snap"
  /\ posTweens[1].elapsed > 0
  /\ posTweens[1].elapsed < SnapDuration

\* C2: the step that ends a snap leaves Position exactly at the snap's target.
SnapEndsAtTarget ==
  [][(isSnapping /\ ~isSnapping') => position' = SnapTweens[1].to]_vars

\* C3, as the spec states it: a backward event in Idle anywhere in section 0
\* finds the target equal to Position, so nothing moves and no snap starts.
BackwardInSectionZeroIsNoOp ==
  [][(~isSnapping /\ Section(position) = 0 /\ intent' = -1)
       => (SnapTarget(position, -1) = position /\ UNCHANGED <<position, isSnapping>>)]_vars

\* C3, amended: a backward event in Idle in section 0 has target 0; it is a
\* no-op exactly when Position is 0, and from any other Position of the
\* section a snap to 0 starts.
BackwardInSectionZeroGoesToZero ==
  [][(~isSnapping /\ Section(position) = 0 /\ intent' = -1)
       => /\ SnapTarget(position, -1) = 0
          /\ IF position = 0 THEN UNCHANGED navVars
             ELSE SnapStarted /\ SnapGoal = 0]_vars

\* a backward event inside section 0, off its start, has started a snap to 0
BackwardSnapInsideSectionZero ==
  /\ isSnapping
  /\ intent = -1
  /\ posTweens[1].to = 0
  /\ posTweens[1].from > 0
  /\ Section(posTweens[1].from) = 0

\* C4, as the spec states it: every snap that starts has its target exactly
\* one section (60 rows) away from Position.
SnapMovesOneSection ==
  [][SnapStarted => Abs(SnapGoal - position) = Rows(SectionSize)]_vars

\* C4, amended: the target of a snap is 60 * max(0, floor(Position / 60) + d);
\* it is exactly 60 rows away when Position is a non-negative multiple of 60,
\* and otherwise less than two sections away.
SnapTargetIsNeighbourSection ==
  [][SnapStarted
       => /\ SnapGoal = Rows(Max(0, Section(position) + intent') * SectionSize)
          /\ SnapGoal % Rows(SectionSize) = 0
          /\ Abs(SnapGoal - position) < 2 * Rows(SectionSize)
          /\ (position >= 0 /\ position % Rows(SectionSize) = 0)
               => Abs(SnapGoal - position) = Rows(SectionSize)]_vars

\* a snap is running that started between two section starts
SnapFromInsideSection ==
  /\ isSnapping
  /\ intent \in {-1, 1}
  /\ posTweens[1].from % Rows(SectionSize) # 0
  /\ Abs(posTweens[1].to - posTweens[1].from) # Rows(SectionSize)

\* C5: Position is never negative.
PositionNonNegative == position >= 0

\* C6: at most one tween drives Position.
AtMostOnePositionTween == Len(posTweens) <= 1

\* C7: a snap that starts sets the velocity to 0, the velocity is 0 for as
\* long as the snap runs, and a frame of the render loop taken while Snapping
\* changes neither Position nor the velocity.
MomentumSuspendedWhileSnapping ==
  [][/\ SnapStarted => velocity' = 0
     /\ isSnapping' => velocity' = 0
     /\ (isSnapping /\ animate) => UNCHANGED <<position, velocity>>]_vars

\* a snap that started while the path was still coasting is running, its
\* velocity zeroed, and frames have passed since
SnapStartedWhileCoasting ==
  /\ isSnapping
  /\ velocity = 0
  /\ dragCount > 0
  /\ posTweens[1].owner = "snap"
  /\ posTweens[1].from = (MaxVelocity \div 2) * FrameStep
  /\ posTweens[1].elapsed > 0

\* the loop indices whose row is not skipped, for a window read at base
WindowOffsets(base) == {i \in (-visibleRange)..(visibleRange - 1) : base + i >= 0}

\* the ground dots of the window read at base
ExpectedDots(base) ==
  {Obj("dot", base + i, col, i * RowSpacing) :
     i \in WindowOffsets(base), col \in 0..(DotsPerRow - 1)}

\* the rule objects of the window read at base
ExpectedCards(base) ==
  UNION {Range(CardsOfRow(base + i, i * RowSpacing)) : i \in WindowOffsets(base)}

\* the milestone texts of the window read at base
ExpectedText(base) ==
  UNION {Range(TextOfRow(base + i, i * RowSpacing)) : i \in WindowOffsets(base)}

\* C8: once createDottedPath has run with the three groups present, and
\* until Position is written again, the groups hold one object for each
\* object spawned for the rows floor(Position) + i, -30 <= i < 30, that are
\* not negative (6 dots a row and the row's rule objects), and no other.
WindowExact ==
  (groupsReady /\ rebuilds > 0)
    => /\ windowBase = Floor(position)
       /\ Range(dotsGroup) = ExpectedDots(windowBase)
       /\ Len(dotsGroup) = DotsPerRow * Cardinality(WindowOffsets(windowBase))
       /\ Range(cardsGroup) = ExpectedCards(windowBase)
       /\ Len(cardsGroup) = Cardinality(ExpectedCards(windowBase))
       /\ Range(textGroup) = ExpectedText(windowBase)
       /\ Len(textGroup) = Cardinality(ExpectedText(windowBase))

\* the window has just been built away from the start of the path, where it
\* is full and holds rule objects
WindowBuiltAwayFromStart ==
  /\ groupsReady
  /\ rebuilds = 1
  /\ windowBase >= visibleRange
  /\ Len(dotsGroup) = 2 * visibleRange * DotsPerRow
  /\ cardsGroup # << >>
  /\ textGroup # << >>

\* C9: the window is the one built for the current floor(Position).
WindowFollowsPosition == groupsReady => windowBase = Floor(position)

\* C10: a second createDottedPath in a row at the same Position leaves every
\* group with the same descriptors, in the same order, as the first call did.
RebuildIdempotent ==
  [][(rebuilds' = 2) => UNCHANGED <<dotsGroup, cardsGroup, textGroup, windowBase>>]_vars

\* createDottedPath has run twice in a row on a window with rule objects
RebuiltTwice ==
  /\ groupsReady
  /\ rebuilds = 2
  /\ windowBase > 0
  /\ dotsGroup # << >>
  /\ cardsGroup # << >>

\* row r is one of the rows the last createDottedPath generated
RowInWindow(r) ==
  /\ groupsReady
  /\ windowBase # None
  /\ r >= 0
  /\ r >= windowBase - visibleRange
  /\ r < windowBase + visibleRange

\* how many objects of a kind the cards and text groups hold for row r
Count(r, kind) ==
  Len(SelectSeq(cardsGroup \o textGroup,
                LAMBDA o : o.rowIndex = r /\ o.kind = kind))

\* the non-dot objects of row r, counted by kind
RowCounts(r) ==
  [milestone |-> Count(r, "milestone_text"), agent |-> Count(r, "ai_agent"),
   various |-> Count(r, "various_shape"), decorative |-> Count(r, "decorative_shape"),
   breakable |-> Count(r, "breakable_cube")]

\* a row's counts, written out
Counts(m, a, v, d, b) ==
  [milestone |-> m, agent |-> a, various |-> v, decorative |-> d, breakable |-> b]

ShapeRulesExclusive ==
  \A r \in 0..(MaxSection * SectionSize + visibleRange) :
    RowInWindow(r)
      => /\ ~(Count(r, "ai_agent") > 0 /\ Count(r, "various_shape") > 0)
         /\ ~(Count(r, "various_shape") > 0 /\ Count(r, "decorative_shape") > 0)
         /\ ~(Count(r, "ai_agent") > 0 /\ Count(r, "decorative_shape") > 0)

\* the window holds an agent row (a multiple of 8, 15 and 60) with its agent
\* and neither shape, beside rows of the 15-rule and of the 8-rule
AgentRowAmongShapeRows ==
  /\ rebuilds > 0
  /\ windowBase = 2 * SectionSize
  /\ RowCounts(2 * SectionSize) = Counts(1, 1, 0, 0, 0)
  /\ Count(2 * SectionSize - 15, "various_shape") = 1
  /\ Count(2 * SectionSize + 8, "decorative_shape") = 1

CurveRows ==
  {CurveRamp \div 2} \cup {meshes[k].obj.rowIndex : k \in 1..Len(meshes)}

TweensOn(k) == SelectSeq(objTweens, LAMBDA tw : tw.target = k)

\* object k has the scale, position, rotation and colour it was spawned with
AsSpawned(k) ==
  LET fresh == NewMesh(meshes[k].obj)
  IN /\ meshes[k].scale = fresh.scale
     /\ meshes[k].position = fresh.position
     /\ meshes[k].rotation = fresh.rotation
     /\ meshes[k].color = fresh.color

\* C16: hover revert restores the object: an object that was hovered, is
\* hovered no longer and has no tween left running on it has the scale,
\* position, rotation and colour it had before the hover began
HoverRevertRestores ==
  \A k \in DOMAIN animatedObjects :
    (currentlyHoveredObject # k /\ TweensOn(k) = << >>) => AsSpawned(k)

\* object k is being reverted: a tween started by stopHoverAnimation still
\* runs on it
Reverting(k) ==
  \E n \in 1..Len(objTweens) : objTweens[n].target = k /\ objTweens[n].owner = "revert"

\* C17: a hover snapshot is discarded when the hover ends or the object is
\* removed by a refresh: every entry of animatedObjects belongs to an object
\* that is still in its group and is hovered or still being reverted
SnapshotsDiscarded ==
  \A k \in DOMAIN animatedObjects :
    meshes[k].attached /\ (currentlyHoveredObject = k \/ Reverting(k))

\* C18: destroyed-object safety: a step that removes the hovered object from
\* its group leaves InteractionManager without a reference to it: it is not
\* currentlyHoveredObject, has no entry in animatedObjects and no tween
\* has it as target
NoReferenceToRemoved ==
  [][\A k \in 1..Len(meshes) :
       (currentlyHoveredObject = k /\ meshes[k].attached /\ ~meshes'[k].attached)
       => /\ currentlyHoveredObject' # k
          /\ k \notin DOMAIN animatedObjects'
          /\ \A n \in 1..Len(objTweens') : objTweens'[n].target # k]_vars

\* C19: cancellation precedes destruction: when a step removes from its
\* group an object that is hovered or has a hover or revert tween in
\* flight, the animation is cancelled by that step: no tween on the object
\* is scheduled after it
CancelledBeforeRemoved ==
  [][\A k \in 1..Len(meshes) :
       (/\ meshes[k].attached /\ ~meshes'[k].attached
        /\ (currentlyHoveredObject = k \/ TweensOn(k) # << >>))
       => TweensOn(k)' = << >>]_vars

\* C20: a hover snapshot is never overwritten: every entry of
\* animatedObjects holds the scale, position, rotation and (once stored)
\* colour its object had before its first hover
SnapshotKeepsFirstValues ==
  \A k \in DOMAIN animatedObjects :
    LET fresh == NewMesh(meshes[k].obj)
        data == animatedObjects[k]
    IN /\ data.originalScale = fresh.scale
       /\ data.originalPosition = fresh.position
       /\ data.originalRotation = fresh.rotation
       /\ data.originalColor \in {None, fresh.color}

\* the step is a call of updateBackgroundForAgent
BackgroundCall == bgCount' = bgCount + 1

\* C21: without the scheduler, updateBackgroundForAgent(i) with i other
\* than the current gradient index applies gradient i at once: after the
\* call the current gradient index is i and no transition tween exists
InstantGradientWithoutScheduler ==
  [][(BackgroundCall /\ ~gsap /\ scene /\ context2d
      /\ requested' # currentGradientIndex)
     => (currentGradientIndex' = requested' /\ bgTweens' = << >>
         /\ sphereMap'.current.agentIndex = requested'
         /\ sphereMap'.previous = NullCanvas)]_vars

\* C21 witness: the scheduler is absent and a call has replaced gradient 0
GradientChangedWithoutScheduler ==
  /\ ~gsap
  /\ bgCount > 0
  /\ currentGradientIndex = requested
  /\ currentGradientIndex # 0

\* C22: without the scheduler, hover-exit restores the object at once: a
\* step that ends the hover on an object leaves it with the scale, position
\* and colour of its snapshot
HoverExitRestoresWithoutScheduler ==
  [][\A k \in 1..Len(meshes) :
       (/\ ~gsap
        /\ currentlyHoveredObject = k
        /\ currentlyHoveredObject' # k
        /\ k \in DOMAIN animatedObjects'
        /\ ~animatedObjects'[k].isHovered)
       => /\ meshes'[k].scale = animatedObjects'[k].originalScale
          /\ meshes'[k].position = animatedObjects'[k].originalPosition
          /\ meshes'[k].color = NewMesh(meshes'[k].obj).color]_vars

\* C23: without the scheduler, scrollTo(target) jumps to the end state: on
\* return Position is target and the recorded target is target
ScrollToJumpsWithoutScheduler ==
  [][\A t \in ScrollTargets :
       (~gsap /\ scrollTo(t)) => (position' = t /\ targetPositionRef' = t)]_vars

\* the gradient images held by the scene manager
Canvases ==
  {previousGradientCanvas, currentGradientCanvas, sphereMap.previous, sphereMap.current}
    \ {NullCanvas}

\* C24: every agent index, however large, is looked up inside the 15-entry
\* tables, and both lookups take the same entry: each gradient image has
\* the top colour of entry i mod 15 of the palette, and the fog has entry
\* i mod 15 of the fog table for the gradient index i last applied
PaletteLookupsWrap ==
  /\ \A c \in Canvases :
       /\ c.agentIndex >= 0
       /\ c.top = gradientColors[(c.agentIndex % 15) + 1]
  /\ scene /\ fog # "null" => fog = fogColors[(currentGradientIndex % 15) + 1]

\* C24 witness: a gradient whose agent index lies beyond the tables has
\* been applied
LargeIndexApplied ==
  /\ currentGradientIndex >= Len(gradientColors)
  /\ sphereMap.current.agentIndex = currentGradientIndex
  /\ fog = fogColors[(currentGradientIndex % 15) + 1]

\* C25: calls made before setup are no-ops: while the group references are
\* null, no step (a refresh or a pointer event among them) changes a
\* container, an object or the hover state, and while the scene manager has
\* no scene a call of updateBackgroundForAgent changes none of its fields
\* and raises no error
CallsBeforeSetupAreNoOps ==
  [][/\ (~groupsReady /\ ~groupsReady')
        => UNCHANGED <<windowVars, animatedObjects, currentlyHoveredObject, objTweens,
                       rebuilds>>
     /\ (~scene /\ BackgroundCall)
        => UNCHANGED <<scene, currentGradientIndex, previousGradientCanvas,
                       currentGradientCanvas, sphereMap, fog, transitionProgress,
                       bgTweens, surfaceOutcome>>]_vars

\* C25 witness: pointer events and background calls have been made and the
\* page is still not set up
CalledBeforeSetup ==
  /\ ~groupsReady
  /\ ~scene
  /\ pointerCount > 0
  /\ bgCount > 0
  /\ dotsGroup = << >> /\ meshes = << >> /\ currentlyHoveredObject = 0

\* C26: a failure to acquire the 2D drawing surface while a gradient is
\* built is fatal and reaches the caller of createScene or
\* updateBackgroundForAgent: no failure is skipped in silence or thrown
\* into the scheduler, and a step in which the acquisition fails leaves the
\* current gradient index as it was
SurfaceFailureReachesCaller ==
  [][/\ surfaceOutcome' \in {"none", "acquired", "thrown to caller"}
     /\ surfaceOutcome' # "acquired" => currentGradientIndex' = currentGradientIndex]_vars

\* C27: with the scheduler, every change passed to updateBackgroundForAgent,
\* the first one after scene creation included, cross-fades: on every
\* frame of a transition that is running alone the sphere shows both the
\* previous and the new gradient image, blended by the progress
CrossFadeOnEveryFrame ==
  [][(/\ gsap /\ context2d
      /\ Len(bgTweens) = 1 /\ Len(bgTweens') = 1
      /\ bgTweens'[1].elapsed > bgTweens[1].elapsed)
     => /\ sphereMap'.previous # NullCanvas
        /\ sphereMap'.current.agentIndex = bgTweens[1].agentIndex
        /\ sphereMap'.alpha = transitionProgress']_vars

\* C28: keyboard navigation matches the on-screen help: W or ArrowUp
\* issues the forward intent, the direction of the wheel scrolled down
\* (+1), and S or ArrowDown issues the backward intent (-1)
KeysMatchHelp ==
  [][/\ (~isSnapping /\ handleScroll(FALSE, FALSE, 100)) => intent' = 1
     /\ \A key \in {"ArrowUp", "w", "W"} :
          (~isSnapping /\ handleKeyDown(key)) => intent' = 1
     /\ \A key \in {"ArrowDown", "s", "S"} :
          (~isSnapping /\ handleKeyDown(key)) => intent' = -1]_vars

\* C29: at most one tween drives the background transition progress: a
\* call of updateBackgroundForAgent made during a cross-fade cancels the
\* running tween before it starts a new one
AtMostOneBackgroundTween == Len(bgTweens) <= 1

\* tween tw writes its property at the next tick of the scheduler
Active(tw) == tw.elapsed + FrameStep > 0

\* C30: when hover ends on an object the hover tweens still running on it
\* are cancelled before the revert tweens start: no hover tween and revert
\* tween are ever active on the same property of one object
NoCompetingHoverTweens ==
  \A i \in 1..Len(objTweens), j \in 1..Len(objTweens) :
    (/\ objTweens[i].owner = "hover" /\ objTweens[j].owner = "revert"
     /\ Active(objTweens[i]) /\ Active(objTweens[j])
     /\ objTweens[i].target = objTweens[j].target)
    => objTweens[i].prop # objTweens[j].prop

\* C31: the background eventually matches the last request: when the last
\* running transition completes, with the drawing surface available, the
\* applied gradient index is the agent index of the most recent call of
\* updateBackgroundForAgent
BackgroundMatchesLastRequest ==
  [][(scene /\ context2d /\ bgTweens # << >> /\ bgTweens' = << >>)
     => currentGradientIndex' = requested]_vars

\* C32: at most one object is marked hovered: an entry of animatedObjects
\* has isHovered set only for currentlyHoveredObject, and
\* currentlyHoveredObject always has an entry with isHovered set, so on a
\* change of the hit target the previous object's hover has been stopped
\* when the new one's has started
AtMostOneHovered ==
  /\ \A k \in DOMAIN animatedObjects :
       animatedObjects[k].isHovered => k = currentlyHoveredObject
  /\ currentlyHoveredObject # 0
     => /\ currentlyHoveredObject \in DOMAIN animatedObjects
        /\ animatedObjects[currentlyHoveredObject].isHovered

\* C32 witness: the hit target has changed from one object to another
HitTargetChanged ==
  /\ currentlyHoveredObject # 0
  /\ \E k \in DOMAIN animatedObjects :
       k # currentlyHoveredObject /\ ~animatedObjects[k].isHovered

\* C33: a wheel event issues +1 only when deltaY > 0 and -1 only when
\* deltaY < 0; a wheel event whose deltaY is 0 issues no directional intent
WheelIntentFollowsDelta ==
  [][\A dy \in WheelDeltas :
       (~isSnapping /\ handleScroll(FALSE, FALSE, dy)) => intent' = Sign(dy)]_vars

\* C34: a touch gesture issues at most one directional intent, only at
\* touchend: touchstart and touchmove issue none; touchend issues one only
\* if the travel recorded by single-finger moves exceeds 50 px in magnitude
\* and no snap is in progress (+1 for an upward swipe, -1 for a downward
\* one), and leaves the accumulated delta at 0
TouchIntentOnlyAtTouchEnd ==
  [][/\ \A n \in TouchCounts, y \in TouchYs :
          (handleTouchStart(n, y) \/ handleTouchMove(n, y)) => intent' = NoInput
     /\ handleTouchEnd
        => /\ touchDelta' = 0
           /\ intent' = IF Abs(touchDelta) > 50 /\ ~isSnapping
                        THEN Sign(touchDelta) ELSE 0]_vars

\* C34 witness: an upward swipe of 100 px has ended and issued the forward
\* intent
SwipeIssuedIntent ==
  /\ intent = 1
  /\ touchStartY = 100
  /\ touchDelta = 0
  /\ isSnapping

\* C35: under snap-only navigation from Position 0, whenever the
\* navigation state is Idle the Position is an exact non-negative multiple
\* of 60, after any sequence of forward and backward intents and ticks
IdleAtSectionStart ==
  ~isSnapping => (position >= 0 /\ position % Rows(SectionSize) = 0)

\* C35 witness: a snap tween has run to its end and the navigation is Idle
\* at the start of section 1
IdleAfterSnaps ==
  /\ ~isSnapping
  /\ gsap
  /\ position = Rows(SectionSize)
  /\ intent = NoInput
  /\ windowBase = SectionSize

\* C36: the index reported by getCurrentGradientInfo is always a valid
\* index into the colors array it returns, for every agent index applied
GradientInfoIndexValid ==
  LET info == getCurrentGradientInfo
  IN info.index >= 0 /\ info.index < Len(info.colors)

\* C37: after SceneManager.dispose(), run by the page's cleanup, the scene
\* manager changes neither the scene (the sphere's image, the fog) nor its
\* gradient index, even if a transition was running at the time
NoChangeAfterDispose ==
  [][disposed => UNCHANGED <<currentGradientIndex, sphereMap, fog>>]_vars

\* C38: for every row r >= 0 the helix elevation is strictly greater than
\* 0, and at r = 0 it is the base height: every dot of the window on a row
\* r >= 0 lies above the ground plane
HelixAboveGround ==
  /\ calculateHelixElevation(0) = CurveScale \div 100
  /\ \A r \in {dotsGroup[n].rowIndex : n \in 1..Len(dotsGroup)} :
       r >= 0 => calculateHelixElevation(r) > 0

\* C39: scrollBy(delta) moves relative to where the Position is: the tween
\* it starts, and the target it records, go to the current Position plus
\* delta
ScrollByIsRelativeToPosition ==
  [][\A delta \in ScrollDeltas :
       (gsap /\ scrollBy(delta))
       => /\ targetPositionRef' = position + delta
          /\ posTweens'[Len(posTweens')].to = position + delta]_vars

====
